---- MODULE Spec2Model ----
(***************************************************************************)
(* Model of the mpl lexer (src/src/lexer.rs, src/src/token.rs): the        *)
(* character scanner, the scan loop of Lexer::parse and the import         *)
(* resolution of Lexer::tokenize.                                          *)
(*                                                                         *)
(* A text is a sequence of one-character strings.  The index i of the      *)
(* scanner is 0-based as in the source, so the character at i is t[i+1].   *)
(* An Option is a sequence of length at most one: None is <<>> and         *)
(* Some(x) is <<x>>.                                                       *)
(***************************************************************************)
EXTENDS Integers, Sequences, FiniteSets, TLC

\* ---------------------------------------------------------------- bounds
\* number of text pieces a main file is made of
MaxPieces == 3
\* how far past the end of the text the model follows the index i
MaxOverrun == 2

\* ------------------------------------------------------------ characters
None == <<>>
Some(x) == <<x>>

\* the value of chars().nth(i).unwrap_or('\0') past the end of the text
NUL == "NUL"

Digits == {"0", "1", "2", "3", "4", "5", "6", "7", "8", "9"}

Lower == {"a", "b", "c", "d", "e", "f", "g", "h", "i", "j", "k", "l", "m",
          "n", "o", "p", "q", "r", "s", "t", "u", "v", "w", "x", "y", "z"}

Upper == {"A", "B", "C", "D", "E", "F", "G", "H", "I", "J", "K", "L", "M",
          "N", "O", "P", "Q", "R", "S", "T", "U", "V", "W", "X", "Y", "Z"}

IsWhite(c) == c = " " \/ c = "\n" \/ c = "\r" \/ c = "\t"

\* -------------------------------------------------------------- token.rs
Tok(k) == [kind |-> k, text |-> <<>>, num |-> 0]
TokText(k, w) == [kind |-> k, text |-> w, num |-> 0]
TokNum(k, n) == [kind |-> k, text |-> <<>>, num |-> n]

\* the strum serializations of enum Token: <<spelling, variant>>
TokenTable ==
    { <<<<"i", "m", "p", "o", "r", "t">>, "Import">>,
      <<<<"f", "n">>, "Fn">>,
      <<<<"m", "a", "i", "n">>, "Main">>,
      <<<<"p", "r", "i", "n", "t">>, "Print">>,
      <<<<"p", "r", "i", "n", "t", "l", "n">>, "Println">>,
      <<<<"c", "a", "l", "l">>, "Call">>,
      <<<<"_", "i", "d", "e", "n", "t">>, "Ident">>,
      <<<<"_", "s", "t", "r">>, "Str">>,
      <<<<"_", "i", "n", "t", "e", "g", "e", "r">>, "Integer">>,
      <<<<"_", "f", "l", "o", "a", "t">>, "Float">>,
      <<<<"t", "o", "_", "s", "t", "r">>, "ToStr">>,
      <<<<"[">>, "LBracket">>,
      <<<<"]">>, "RBracket">>,
      <<<<"(">>, "LParen">>,
      <<<<")">>, "RParen">>,
      <<<<"{">>, "LBrace">>,
      <<<<"}">>, "RBrace">>,
      <<<<",">>, "Comma">>,
      <<<<"+">>, "Plus">>,
      <<<<"-">>, "Minus">>,
      <<<<"*">>, "Star">>,
      <<<<"/">>, "Slash">>,
      <<<<":">>, "Colon">>,
      <<<<".">>, "Dot">>,
      <<<<"n", "l">>, "Nl">>,
      <<<<"l", "o", "c", "a", "l">>, "Local">>,
      <<<<"t", "r", "u", "e">>, "True">>,
      <<<<"f", "a", "l", "s", "e">>, "False">>,
      <<<<"=">>, "Equal">>,
      <<<<"i", "n", "t">>, "IntType">>,
      <<<<"f", "l", "o", "a", "t">>, "FloatType">>,
      <<<<"l", "e", "t">>, "Let">>,
      <<<<"f", "o", "r">>, "For">>,
      <<<<"t", "o">>, "To">>,
      <<<<"s", "t", "e", "p">>, "Step">>,
      <<<<"n", "e", "x", "t">>, "Next">>,
      <<<<"b", "r", "e", "a", "k">>, "Break">>,
      <<<<"_", "e", "o", "f">>, "Eof">> }

\* Token::from_str as derived by strum's EnumString: an exact match on the
\* serialization; a variant with a field is built with the field's default
\* value (String::new(), 0, 0.0).  None stands for Err(VariantNotFound).
from_str(word) ==
    LET hits == {e \in TokenTable : e[1] = word}
    IN IF hits = {} THEN None
       ELSE Some(Tok((CHOOSE e \in hits : TRUE)[2]))

\* ------------------------------------------------------ character scanner
\* Position::new / Lexer::new: i = 0, line = 1, col = 1
NewState == [i |-> 0, col |-> 1, line |-> 1]

CharAt(t, i) == IF i < Len(t) THEN t[i + 1] ELSE NUL

\* returns the character read and the scanner state after the read
get_next_char(t, s) ==
    LET c == CharAt(t, s.i)
    IN [c |-> c,
        s |-> IF c = "\n"
              THEN [i |-> s.i + 1, col |-> 1, line |-> s.line + 1]
              ELSE [i |-> s.i + 1, col |-> s.col + 1, line |-> s.line]]

RECURSIVE bump(_, _, _)
bump(t, s, nb) ==
    IF nb = 0 THEN s ELSE bump(t, get_next_char(t, s).s, nb - 1)

identify_token(word) == from_str(word)

RECURSIVE skip_whitespace_loop(_, _)
skip_whitespace_loop(t, s) ==
    LET r == get_next_char(t, s)
    IN IF IsWhite(r.c) THEN skip_whitespace_loop(t, r.s) ELSE r.s

\* a mutant of skip_whitespace: the column is not taken back by one
skip_whitespace_keep_col(t, s) ==
    LET e == skip_whitespace_loop(t, s)
    IN [i |-> e.i - 1, col |-> e.col, line |-> e.line]

skip_whitespace(t, s) ==
    LET e == skip_whitespace_loop(t, s)
    IN [i |-> e.i - 1, col |-> e.col - 1, line |-> e.line]

look_ahead(t, s, nb) ==
    IF s.i + nb > Len(t) THEN None
    ELSE Some(SubSeq(t, s.i + 1, s.i + nb))

\* the loop of skip_comment_multiple_line after the opening /* was bumped
RECURSIVE multiple_line_loop(_, _)
multiple_line_loop(t, s) ==
    LET la == look_ahead(t, s, 2)
    IN IF la = None THEN [close |-> FALSE, s |-> s]
       ELSE IF la = Some(<<"*", "/">>)
            THEN [close |-> TRUE, s |-> skip_whitespace(t, bump(t, s, 2))]
            ELSE multiple_line_loop(t, get_next_char(t, s).s)

\* close = FALSE is Err("Unclosed comment") at position s
skip_comment_multiple_line(t, s) ==
    IF look_ahead(t, s, 2) = Some(<<"/", "*">>)
    THEN multiple_line_loop(t, bump(t, s, 2))
    ELSE [close |-> TRUE, s |-> s]

is_digit(ch) == IF ch = "." THEN TRUE ELSE ch \in Digits

\* the while loop of try_number: c is the character under test, saved the
\* state of the last save_state, now the scanner state
RECURSIVE try_number_loop(_, _, _, _, _)
try_number_loop(t, c, word, saved, now) ==
    IF c = NUL THEN [res |-> Some(word), s |-> now]
    ELSE IF IsWhite(c) THEN [res |-> Some(word), s |-> now]
    ELSE IF identify_token(<<c>>) # None THEN [res |-> Some(word), s |-> saved]
    ELSE LET r == get_next_char(t, now)
         IN try_number_loop(t, r.c, Append(word, c), now, r.s)

try_number(t, s) ==
    LET r == get_next_char(t, s)
    IN IF is_digit(r.c)
       THEN try_number_loop(t, r.c, <<>>, r.s, r.s)
       ELSE [res |-> None, s |-> s]

\* the while loop of try_string: c is the character under test
RECURSIVE try_string_loop(_, _, _, _, _)
try_string_loop(t, c, str, s0, now) ==
    IF c = NUL THEN [err |-> FALSE, res |-> None, s |-> s0]
    ELSE IF c = "\n" \/ c = "\r" THEN [err |-> TRUE, res |-> None, s |-> now]
    ELSE IF c = "\"" THEN [err |-> FALSE, res |-> Some(str), s |-> now]
    ELSE LET r == get_next_char(t, now)
         IN try_string_loop(t, r.c, Append(str, c), s0, r.s)

\* err = TRUE is Err("Unclosed string") at position s
try_string(t, s) ==
    LET r == get_next_char(t, s)
    IN IF r.c = "\""
       THEN LET r2 == get_next_char(t, r.s)
            IN try_string_loop(t, r2.c, <<>>, s, r2.s)
       ELSE [err |-> FALSE, res |-> None, s |-> s]

\* a mutant of try_symbol: the state is not restored when nothing matches
try_symbol_no_restore(t, s) ==
    [res |-> identify_token(<<get_next_char(t, s).c>>),
     s |-> get_next_char(t, s).s]

try_symbol(t, s) ==
    LET r == get_next_char(t, s)
        tk == identify_token(<<r.c>>)
    IN IF tk = None THEN [res |-> None, s |-> s]
       ELSE [res |-> tk, s |-> r.s]

\* the loop of get_next_word: saved is the state of the last save_state
RECURSIVE get_next_word_loop(_, _, _, _)
get_next_word_loop(t, word, saved, now) ==
    LET r == get_next_char(t, now)
    IN IF r.c = NUL \/ IsWhite(r.c) THEN [word |-> word, s |-> r.s]
       ELSE IF identify_token(<<r.c>>) # None THEN [word |-> word, s |-> saved]
       ELSE get_next_word_loop(t, Append(word, r.c), r.s, r.s)

get_next_word(t, s) ==
    LET r == get_next_word_loop(t, <<>>, s, s)
    IN [res |-> IF r.word = <<>> THEN None ELSE Some(r.word), s |-> r.s]

eof(t, s) == s.i >= Len(t)

is_ident_valid(word) ==
    /\ word # <<>>
    /\ word[1] \in Lower \cup Upper
    /\ \A k \in 1..Len(word) : word[k] \in Lower \cup Upper \cup Digits \cup {"_"}

\* ------------------------------------------------------- number parsing
DigitVal(c) ==
    CASE c = "0" -> 0 [] c = "1" -> 1 [] c = "2" -> 2 [] c = "3" -> 3
      [] c = "4" -> 4 [] c = "5" -> 5 [] c = "6" -> 6 [] c = "7" -> 7
      [] c = "8" -> 8 [] c = "9" -> 9

I32Max == 2147483647

RECURSIVE DecimalValue(_, _)
DecimalValue(word, acc) ==
    IF word = <<>> THEN acc
    ELSE DecimalValue(Tail(word), 10 * acc + DigitVal(Head(word)))

\* the digit loop of word.parse::<i32>(): checked_mul by 10 and checked_add
\* of the digit; None stands for Err(PosOverflow)
RECURSIVE parse_i32_loop(_, _)
parse_i32_loop(word, acc) ==
    IF word = <<>> THEN Some(acc)
    ELSE IF acc > I32Max \div 10 THEN None
    ELSE IF 10 * acc > I32Max - DigitVal(Head(word)) THEN None
    ELSE parse_i32_loop(Tail(word), 10 * acc + DigitVal(Head(word)))

\* a mutant of parse_i32: a value that does not fit is clamped to i32::MAX
parse_i32_saturating(word) ==
    IF word = <<>> \/ \E k \in 1..Len(word) : word[k] \notin Digits THEN None
    ELSE IF parse_i32_loop(word, 0) = None THEN Some(I32Max)
    ELSE parse_i32_loop(word, 0)

\* word.parse::<i32>() on a word without sign characters (+ and - are
\* symbols and never part of a word): None stands for Err
parse_i32(word) ==
    IF word = <<>> \/ \E k \in 1..Len(word) : word[k] \notin Digits THEN None
    ELSE parse_i32_loop(word, 0)

\* word.parse::<f64>() for the words over digits and dots; the value is
\* represented by the lexeme.  None stands for Err
parse_f64(word) ==
    IF /\ \A k \in 1..Len(word) : word[k] \in Digits \cup {"."}
       /\ Cardinality({k \in 1..Len(word) : word[k] = "."}) <= 1
       /\ \E k \in 1..Len(word) : word[k] \in Digits
    THEN Some(word)
    ELSE None

\* ------------------------------------------------- one pass of the scan loop
Position(fname, s) == [file_name |-> fname, line |-> s.line, col |-> s.col]

LexError(msg, arg, pos) == [message |-> msg, arg |-> arg, pos |-> pos]

LexToken(tk, pos) == [token |-> tk, pos |-> pos]

NoTok == Tok("none")
NoErr == LexError("", <<>>, Position(<<>>, NewState))

\* the number branch of the loop body of Lexer::parse
NumberToken(word, pos, s) ==
    IF \E k \in 1..Len(word) : word[k] = "."
    THEN IF parse_f64(word) = None
         THEN [k |-> "err", tok |-> NoTok, s |-> s,
               err |-> LexError("invalid float number format", word, pos)]
         ELSE [k |-> "tok", tok |-> TokText("Float", parse_f64(word)[1]),
               s |-> s, err |-> NoErr]
    ELSE IF parse_i32(word) = None
         THEN [k |-> "err", tok |-> NoTok, s |-> s,
               err |-> LexError("invalid integer format", word, pos)]
         ELSE [k |-> "tok", tok |-> TokNum("Integer", parse_i32(word)[1]),
               s |-> s, err |-> NoErr]

\* the keyword/identifier branch of the loop body of Lexer::parse
WordToken(word, pos, s) ==
    IF identify_token(word) # None
    THEN [k |-> "tok", tok |-> identify_token(word)[1], s |-> s, err |-> NoErr]
    ELSE IF is_ident_valid(word)
         THEN [k |-> "tok", tok |-> TokText("Ident", word), s |-> s, err |-> NoErr]
         ELSE [k |-> "err", tok |-> NoTok, s |-> s,
               err |-> LexError("Unknown token", word, pos)]

\* The loop body of Lexer::parse from skip_comment_multiple_line on, started
\* in scanner state s.  k is "err" (return Err), "eof" (push Eof and break),
\* "tok" (push tok and continue) or "none" (nothing recognised, next pass).
ScanBody(t, fname, s) ==
    LET mc  == skip_comment_multiple_line(t, s)
        pos == Position(fname, mc.s)
        st  == try_string(t, mc.s)
        sy  == try_symbol(t, st.s)
        nu  == try_number(t, sy.s)
        wd  == get_next_word(t, nu.s)
    IN IF ~mc.close
       THEN [k |-> "err", tok |-> NoTok, s |-> mc.s,
             err |-> LexError("Unclosed comment", <<>>, pos)]
       ELSE IF eof(t, mc.s)
       THEN [k |-> "eof", tok |-> Tok("Eof"), s |-> mc.s, err |-> NoErr]
       ELSE IF st.err
       THEN [k |-> "err", tok |-> NoTok, s |-> st.s,
             err |-> LexError("Unclosed string", <<>>, Position(fname, st.s))]
       ELSE IF st.res # None
       THEN [k |-> "tok", tok |-> TokText("Str", st.res[1]), s |-> st.s,
             err |-> NoErr]
       ELSE IF sy.res # None
       THEN [k |-> "tok", tok |-> sy.res[1], s |-> sy.s, err |-> NoErr]
       ELSE IF nu.res # None
       THEN NumberToken(nu.res[1], pos, nu.s)
       ELSE IF wd.res # None
       THEN WordToken(wd.res[1], pos, wd.s)
       ELSE [k |-> "none", tok |-> NoTok, s |-> wd.s, err |-> NoErr]

\* the position the loop body of Lexer::parse gives to the token it pushes
TokenPos(t, fname, s) == Position(fname, skip_comment_multiple_line(t, s).s)

\* ------------------------------------------------ Lexer::parse as a function
\* the 0-based index of the first "\n" at or after index i, Len(t) if none
RECURSIVE NextNewline(_, _)
NextNewline(t, i) ==
    IF i >= Len(t) THEN Len(t)
    ELSE IF t[i + 1] = "\n" THEN i
    ELSE NextNewline(t, i + 1)

\* skip_comment_single_line started in state s: ends is FALSE when no "\n"
\* follows, the while loop then reads '\0' for ever; otherwise s is the
\* state after the get_next_char that read the "\n"
skip_comment_single_line(t, s) ==
    IF look_ahead(t, s, 2) # Some(<<"/", "/">>) THEN [ends |-> TRUE, s |-> s]
    ELSE IF NextNewline(t, s.i) >= Len(t) THEN [ends |-> FALSE, s |-> s]
    ELSE [ends |-> TRUE,
          s |-> [i |-> NextNewline(t, s.i) + 1, col |-> 1, line |-> s.line + 1]]

\* the loop of Lexer::parse from scanner state s with the tokens toks pushed:
\* k is "ok" (Ok(tokens)), "err" (Err(err)) or "loop" (no return)
RECURSIVE parse_loop(_, _, _, _)
parse_loop(t, fname, s, toks) ==
    LET sl == skip_comment_single_line(t, skip_whitespace(t, s))
        r  == ScanBody(t, fname, sl.s)
        lt == LexToken(r.tok, TokenPos(t, fname, sl.s))
    IN IF ~sl.ends THEN [k |-> "loop", toks |-> toks, err |-> NoErr]
       ELSE IF r.k = "err" THEN [k |-> "err", toks |-> toks, err |-> r.err]
       ELSE IF r.k = "eof"
            THEN [k |-> "ok", toks |-> Append(toks, lt), err |-> NoErr]
       ELSE IF r.k = "tok" THEN parse_loop(t, fname, r.s, Append(toks, lt))
       ELSE parse_loop(t, fname, r.s, toks)

\* Lexer::parse on a readable file of content t
parse(t, fname) == parse_loop(t, fname, NewState, <<>>)

\* --------------------------------------------------------- import resolver
ImportAt(i, path) == [i |-> i, path |-> path]

\* a mutant of import_exists: no path is ever found
import_exists_never(imports, s) == FALSE

\* imports.iter().any(|(_, exist)| *exist == *s)
import_exists(imports, s) == \E n \in 1..Len(imports) : imports[n].path = s

\* the for loop of get_import_list over tokens.windows(2).enumerate(): i is
\* the 0-based index of the window, k the number of imports recorded
RECURSIVE get_import_list_loop(_, _, _, _)
get_import_list_loop(toks, i, k, imports) ==
    IF i + 2 > Len(toks) THEN [err |-> None, imports |-> imports]
    ELSE LET cur  == toks[i + 1]
             next == toks[i + 2]
         IN IF cur.token = Tok("Import")
            THEN IF next.token.kind = "Str"
                 THEN IF ~import_exists(imports, next.token.text)
                      THEN IF k > 0 /\ imports[k].i + 2 # i
                           THEN [err |-> Some(LexError(
                                     "import can't be after instruction",
                                     <<>>, next.pos)),
                                 imports |-> imports]
                           ELSE get_import_list_loop(toks, i + 1, k + 1,
                                    Append(imports,
                                           ImportAt(i, next.token.text)))
                      ELSE [err |-> Some(LexError("import already defined",
                                                  next.token.text, next.pos)),
                            imports |-> imports]
                 ELSE [err |-> Some(LexError("import must be a string",
                                             <<>>, next.pos)),
                       imports |-> imports]
            ELSE get_import_list_loop(toks, i + 1, k, imports)

get_import_list(toks) == get_import_list_loop(toks, 0, 0, <<>>)

\* a mutant of sort_by_key_reverse: the order get_import_list recorded
sort_by_key_unsorted(imports) == imports

\* imports.sort_by_key(|(i, _)| Reverse(*i)): stable, largest index first
RECURSIVE sort_by_key_reverse(_)
sort_by_key_reverse(imports) ==
    IF imports = <<>> THEN <<>>
    ELSE LET n == CHOOSE n \in 1..Len(imports) :
                      /\ \A m \in 1..Len(imports) : imports[m].i <= imports[n].i
                      /\ \A m \in 1..(n - 1) : imports[m].i < imports[n].i
         IN <<imports[n]>> \o
            sort_by_key_reverse(SubSeq(imports, 1, n - 1) \o
                                SubSeq(imports, n + 1, Len(imports)))

\* a mutant of import_pos: the position of the token after the Import token
import_pos_of_next(toks, i) == toks[i + 2].pos

\* tokens[i].pos.clone(): the position parse_file gets for the import at i
import_pos(toks, i) == toks[i + 1].pos

\* tokens.splice(i..=i+1, imp_tokens) for i + 1 < tokens.len()
splice(toks, i, imp_tokens) ==
    SubSeq(toks, 1, i) \o imp_tokens \o SubSeq(toks, i + 3, Len(toks))

\* imp_tokens.pop()
pop(toks) == SubSeq(toks, 1, Len(toks) - 1)

\* the 1-based index of the last "/" of a path, 0 when it has none
LastSep(path) ==
    IF \E k \in 1..Len(path) : path[k] = "/"
    THEN CHOOSE k \in 1..Len(path) :
             path[k] = "/" /\ \A m \in (k + 1)..Len(path) : path[m] # "/"
    ELSE 0

\* Path::new(path).parent() for a path of plain components separated by "/"
parent(path) ==
    IF path = <<>> \/ path = <<"/">> THEN None
    ELSE IF LastSep(path) = 0 THEN Some(<<>>)
    ELSE IF LastSep(path) = 1 THEN Some(<<"/">>)
    ELSE Some(SubSeq(path, 1, LastSep(path) - 1))

dir_with_sep(path) ==
    IF parent(path) = None THEN None
    ELSE LET s == parent(path)[1]
         IN IF s # <<>> /\ s[Len(s)] = "/" THEN Some(s)
            ELSE Some(Append(s, "/"))

\* Self::dir_with_sep(&self.src_filename).unwrap_or_else(|| ".".to_string())
working_path(main) ==
    IF dir_with_sep(main) = None THEN <<".">> ELSE dir_with_sep(main)[1]

\* ------------------------------------------------------------------ inputs
\* the names of the main file given to Lexer::new: a bare file name and a
\* file in a directory
MainFiles == { <<"m">>, <<"d", "/", "m">> }

\* the pieces of text a main file is made of
Pieces ==
    { <<"i", "m", "p", "o", "r", "t", " ", "\"", "a", "\"", " ">>,
      <<"i", "m", "p", "o", "r", "t", " ", "\"", "b", "\"", " ">>,
      <<"i", "m", "p", "o", "r", "t", " ", "x", " ">>,
      <<"x", " ">>,
      <<"_", "e", "o", "f", " ">>,
      <<"/", "/", "c">>,
      <<"\n">>,
      <<"/", "*", "c", "*", "/">>,
      <<"/", "*", "c">>,
      <<"\"", "s">>,
      <<"\"">>,
      <<"3", ".", "1", "4">> }

RECURSIVE TextsOfPieces(_)
TextsOfPieces(n) ==
    IF n = 0 THEN { <<>> }
    ELSE { p \o t : p \in Pieces, t \in TextsOfPieces(n - 1) }

\* main files with numbers, reserved spellings and tokens on several lines
ExtraTexts ==
    { <<"3", ".", "1", "4", ".", "1">>,
      <<"2", "1", "4", "7", "4", "8", "3", "6", "4", "7", " ",
        "2", "1", "4", "7", "4", "8", "3", "6", "4", "8">>,
      <<"4", "2", "9", "4", "9", "6", "7", "2", "9", "7">>,
      <<"0", "0", "7", "+", "4", "2">>,
      <<"1", "f", "o", "o">>,
      <<"_", "i", "d", "e", "n", "t", " ">>,
      <<"i", "m", "p", "o", "r", "t", " ", "_", "s", "t", "r", " ">>,
      <<"i", "m", "p", "o", "r", "t">>,
      <<"x", "\n", " ", "\"", "s", "\"", " ", "1", "2", "+", "y", " ",
        "/", "*", "c", "*", "/", " ", "z", " ", "/", "/", "c", "\n",
        "\t", "w">> }

\* the contents a readable main file may have
MainTexts == UNION { TextsOfPieces(n) : n \in 0..MaxPieces } \cup ExtraTexts

\* the contents a readable imported file may have
ImportTexts ==
    { <<>>,
      <<"y">>,
      <<"y", " ", "z", " ", "w">>,
      <<"_", "e", "o", "f", " ", "y">>,
      <<"i", "m", "p", "o", "r", "t", " ", "\"", "b", "\"">>,
      <<"/", "*">>,
      <<"y", "\n", " ", "1", "f", "o", "o">> }

\* ------------------------------------------------------------------- state
VARIABLES
    pc,             \* the place of control in tokenize / parse
    main_filename,  \* src_filename of the Lexer tokenize is called on
    src_filename,   \* src_filename of the Lexer made by parse_file
    src_text,       \* its src_text
    cur,            \* its i, pos.col and pos.line
    parse_tokens,   \* the local tokens of Lexer::parse
    tokens,         \* the local tokens of Lexer::tokenize
    main_tokens,    \* what parse_file returned for the main file
    imports,        \* the imports the for loop of tokenize still has to do
    imp,            \* the import whose file is being parsed, as an Option
    err,            \* the LexError returned, as an Option
    reads,          \* the names given to fs::read_to_string, in order
    spliced         \* per import done: index, path, what parse_file returned

vars == <<pc, main_filename, src_filename, src_text, cur, parse_tokens, tokens,
          main_tokens, imports, imp, err, reads, spliced>>

Init ==
    /\ pc = "start"
    /\ main_filename \in MainFiles
    /\ src_filename = <<>>
    /\ src_text = <<>>
    /\ cur = NewState
    /\ parse_tokens = <<>>
    /\ tokens = <<>>
    /\ main_tokens = <<>>
    /\ imports = <<>>
    /\ imp = None
    /\ err = None
    /\ reads = <<>>
    /\ spliced = <<>>

\* Lexer::parse from skip_comment_multiple_line to the end of the loop body
Body(s) ==
    LET r == ScanBody(src_text, src_filename, s)
        pos == TokenPos(src_text, src_filename, s)
    IN /\ cur' = r.s
       /\ CASE r.k = "err" ->
                 /\ err' = Some(r.err)
                 /\ pc' = "error"
                 /\ UNCHANGED parse_tokens
            [] r.k = "eof" ->
                 /\ parse_tokens' = Append(parse_tokens, LexToken(r.tok, pos))
                 /\ pc' = IF imp = None THEN "main_parsed" ELSE "import_parsed"
                 /\ UNCHANGED err
            [] r.k = "tok" ->
                 /\ parse_tokens' = Append(parse_tokens, LexToken(r.tok, pos))
                 /\ pc' = "scan"
                 /\ UNCHANGED err
            [] r.k = "none" ->
                 /\ pc' = "scan"
                 /\ UNCHANGED <<parse_tokens, err>>

\* tokenize calls parse_file for the main file: Lexer::new and the read of
\* Lexer::parse; the closure of map_err unwraps pos, which is None here
TokenizeBegin ==
    /\ pc = "start"
    /\ reads' = Append(reads, main_filename)
    /\ \/ /\ pc' = "panic"
          /\ UNCHANGED <<src_filename, src_text, cur>>
       \/ \E text \in MainTexts :
             /\ src_filename' = main_filename
             /\ src_text' = text
             /\ cur' = NewState
             /\ pc' = "scan"
    /\ UNCHANGED <<main_filename, parse_tokens, tokens, main_tokens, imports,
                   imp, err, spliced>>

\* the head of the loop of Lexer::parse: skip_whitespace, then
\* skip_comment_single_line up to its look_ahead; without a line comment the
\* rest of the loop body follows
ParseLoop ==
    /\ pc = "scan"
    /\ LET s == skip_whitespace(src_text, cur)
       IN IF look_ahead(src_text, s, 2) = Some(<<"/", "/">>)
          THEN /\ cur' = s
               /\ pc' = "line_comment"
               /\ UNCHANGED <<parse_tokens, err>>
          ELSE Body(s)
    /\ UNCHANGED <<main_filename, src_filename, src_text, tokens, main_tokens,
                   imports, imp, reads, spliced>>

\* one get_next_char of skip_comment_single_line and the test c != '\n'.
\* Past the end of the text get_next_char returns '\0' and the loop goes on
\* for ever; the model follows it for MaxOverrun characters and then leaves
\* the scanner in the loop.
SkipCommentSingleLine ==
    /\ pc = "line_comment"
    /\ cur.i < Len(src_text) + MaxOverrun
    /\ LET r == get_next_char(src_text, cur)
       IN /\ cur' = r.s
          /\ pc' = IF r.c = "\n" THEN "after_line_comment" ELSE "line_comment"
    /\ UNCHANGED <<main_filename, src_filename, src_text, parse_tokens, tokens,
                   main_tokens, imports, imp, err, reads, spliced>>

\* the rest of the loop body after skip_comment_single_line returned
ParseAfterComment ==
    /\ pc = "after_line_comment"
    /\ Body(cur)
    /\ UNCHANGED <<main_filename, src_filename, src_text, tokens, main_tokens,
                   imports, imp, reads, spliced>>

\* tokenize after the main file is parsed: get_import_list and the sort
CheckImports ==
    /\ pc = "main_parsed"
    /\ tokens' = parse_tokens
    /\ main_tokens' = parse_tokens
    /\ LET r == get_import_list(parse_tokens)
       IN IF r.err # None
          THEN /\ err' = r.err
               /\ pc' = "error"
               /\ UNCHANGED imports
          ELSE /\ imports' = sort_by_key_reverse(r.imports)
               /\ pc' = "import_loop"
               /\ UNCHANGED err
    /\ UNCHANGED <<main_filename, src_filename, src_text, cur, parse_tokens,
                   imp, reads, spliced>>

\* the for loop of tokenize takes the next import and calls parse_file
\* (a name that ends with the separator names no file that can be read)
ParseImport ==
    /\ pc = "import_loop"
    /\ imports # <<>>
    /\ LET head == Head(imports)
           import_name == working_path(main_filename) \o head.path
       IN /\ reads' = Append(reads, import_name)
          /\ imports' = Tail(imports)
          /\ \/ /\ err' = Some(LexError("File not found", import_name,
                                        import_pos(tokens, head.i)))
                /\ pc' = "error"
                /\ UNCHANGED <<src_filename, src_text, cur, parse_tokens, imp>>
             \/ \E text \in ImportTexts :
                   /\ import_name[Len(import_name)] # "/"
                   /\ src_filename' = import_name
                   /\ src_text' = text
                   /\ cur' = NewState
                   /\ parse_tokens' = <<>>
                   /\ imp' = Some(head)
                   /\ pc' = "scan"
                   /\ UNCHANGED err
    /\ UNCHANGED <<main_filename, tokens, main_tokens, spliced>>

\* parse_file returned Ok for an import: pop the Eof and splice
SpliceImport ==
    /\ pc = "import_parsed"
    /\ IF imp[1].i + 2 > Len(tokens)
       THEN /\ pc' = "panic"
            /\ UNCHANGED <<tokens, spliced, imp>>
       ELSE /\ tokens' = splice(tokens, imp[1].i, pop(parse_tokens))
            /\ spliced' = Append(spliced, [i |-> imp[1].i, path |-> imp[1].path,
                                           toks |-> parse_tokens])
            /\ imp' = None
            /\ pc' = "import_loop"
    /\ UNCHANGED <<main_filename, src_filename, src_text, cur, parse_tokens,
                   main_tokens, imports, err, reads>>

\* the for loop is over: tokenize returns Ok(token_stream)
TokenizeEnd ==
    /\ pc = "import_loop"
    /\ imports = <<>>
    /\ pc' = "done"
    /\ UNCHANGED <<main_filename, src_filename, src_text, cur, parse_tokens,
                   tokens, main_tokens, imports, imp, err, reads, spliced>>

Next ==
    \/ TokenizeBegin
    \/ ParseLoop
    \/ SkipCommentSingleLine
    \/ ParseAfterComment
    \/ CheckImports
    \/ ParseImport
    \/ SpliceImport
    \/ TokenizeEnd

Spec == Init /\ [][Next]_vars

\* skip_comment_single_line is sequential code: the next pass of its while
\* loop is always taken
FairSpec == Spec /\ WF_vars(SkipCommentSingleLine)

TypeOK ==
    /\ pc \in {"start", "scan", "line_comment", "after_line_comment",
               "main_parsed", "import_loop", "import_parsed", "done", "error",
               "panic"}
    /\ cur.i >= 0 /\ cur.line >= 1 /\ cur.col >= 1
    /\ Len(imp) <= 1 /\ Len(err) <= 1

\* ------------------------------------------------------------ properties
Final == {"done", "error", "panic"}

\* Lexer::parse has returned Ok(tokens) for the file src_filename
ParseReturned == pc \in {"main_parsed", "import_parsed"}

IsImport(lt) == lt.token.kind = "Import"
IsEof(lt) == lt.token.kind = "Eof"
IsStr(lt) == lt.token.kind = "Str"

\* C1: when tokenize returns Ok the token sequence has exactly one Eof token,
\* and it is the last element
C1_OneEofLast ==
    pc = "done" =>
        /\ tokens # <<>>
        /\ IsEof(tokens[Len(tokens)])
        /\ \A k \in 1..(Len(tokens) - 1) : ~IsEof(tokens[k])

\* the number of leading (Import, Str) pairs of a token sequence
RECURSIVE LeadingImports(_, _)
LeadingImports(toks, n) ==
    IF 2 * n + 2 <= Len(toks) /\ IsImport(toks[2 * n + 1]) /\ IsStr(toks[2 * n + 2])
    THEN LeadingImports(toks, n + 1)
    ELSE n

\* the tokens after the leading block of imports
ProgramTokens(toks) == SubSeq(toks, 2 * LeadingImports(toks, 0) + 1, Len(toks))

\* a leading block of n >= 1 imports with pairwise distinct paths, followed
\* by tokens none of which is an Import
LeadingBlock(toks) ==
    LET n == LeadingImports(toks, 0)
    IN /\ n >= 1
       /\ \A j, k \in 1..n : j # k => toks[2 * j].token.text # toks[2 * k].token.text
       /\ \A k \in 1..Len(ProgramTokens(toks)) : ~IsImport(ProgramTokens(toks)[k])

\* what parse_file returned for the import of a path
TokensOf(path) == (CHOOSE k \in 1..Len(spliced) : spliced[k].path = path)

RECURSIVE ImportedTokens(_, _)
ImportedTokens(toks, k) ==
    IF k > LeadingImports(toks, 0) THEN <<>>
    ELSE pop(spliced[TokensOf(toks[2 * k].token.text)].toks)
             \o ImportedTokens(toks, k + 1)

\* C2: a main file that starts with n >= 1 imports of distinct paths, all of
\* which parse, yields tokens(p_1) ++ ... ++ tokens(p_n) ++ program tokens,
\* every tokens(p_k) without its Eof; an error can only come from an import
C2_MergedStream ==
    LeadingBlock(main_tokens) =>
        /\ pc # "panic"
        /\ pc = "done" =>
              /\ Len(spliced) = LeadingImports(main_tokens, 0)
              /\ tokens = ImportedTokens(main_tokens, 1)
                              \o ProgramTokens(main_tokens)
        /\ pc = "error" =>
              \/ err[1].message = "File not found"
              \/ err[1].pos.file_name # main_filename

\* C2: two imports, one of them of a file that does not yield two tokens,
\* followed by program tokens
C2_Witness ==
    /\ pc = "done"
    /\ LeadingBlock(main_tokens)
    /\ LeadingImports(main_tokens, 0) = 2
    /\ Len(ProgramTokens(main_tokens)) >= 2
    /\ \E k \in 1..Len(spliced) : Len(spliced[k].toks) # 3

\* C4: when tokenize returns Ok the token sequence has no Import token
C4_NoImportSurvives ==
    pc = "done" => \A k \in 1..Len(tokens) : ~IsImport(tokens[k])

\* the 0-based indices of the Import tokens of a token sequence
ImportIndices(toks) == {i \in 0..(Len(toks) - 2) : IsImport(toks[i + 1])}

\* an (Import, Str) pair that is the k-th import but not at index 2 * k
Misplaced(toks) ==
    \E i \in ImportIndices(toks) :
        /\ IsStr(toks[i + 2])
        /\ i # 2 * Cardinality({j \in ImportIndices(toks) : j < i})

\* every Import is followed by a Str and no path occurs twice
NoOtherImportFault(toks) ==
    /\ \A i \in ImportIndices(toks) : IsStr(toks[i + 2])
    /\ \A i, j \in ImportIndices(toks) :
           i # j => toks[i + 2].token.text # toks[j + 2].token.text

\* C5: an import that does not stand in the leading block of imports makes
\* import resolution fail with "import can't be after instruction" (stated
\* for main files with no other import fault)
C5_ImportAfterInstruction ==
    (main_tokens # <<>> /\ Misplaced(main_tokens)
                        /\ NoOtherImportFault(main_tokens)) =>
        /\ pc = "error"
        /\ err[1].message = "import can't be after instruction"

\* the indices of the Import tokens whose path follows an earlier Import too
DuplicateIndices(toks) ==
    {j \in ImportIndices(toks) :
        /\ IsStr(toks[j + 2])
        /\ \E i \in ImportIndices(toks) :
               /\ i < j
               /\ IsStr(toks[i + 2])
               /\ toks[i + 2].token.text = toks[j + 2].token.text}

\* the index of the Import token of the second occurrence of a path
FirstDuplicate(toks) ==
    CHOOSE j \in DuplicateIndices(toks) : \A i \in DuplicateIndices(toks) : j <= i

\* import resolution failed with DuplicateImport at the Str token of the
\* import at index j, before any imported file was read
DuplicateReported(toks, j) ==
    /\ pc = "error"
    /\ err[1].message = "import already defined"
    /\ err[1].arg = toks[j + 2].token.text
    /\ err[1].pos = toks[j + 2].pos
    /\ reads = <<main_filename>>

\* C6 as stated: a path that follows two Import tokens of the main file makes
\* import resolution fail with DuplicateImport at the second occurrence
C6_DuplicateImport ==
    (main_tokens # <<>> /\ DuplicateIndices(main_tokens) # {}) =>
        DuplicateReported(main_tokens, FirstDuplicate(main_tokens))

\* no Import token before index j is at fault: each is followed by a Str,
\* and each but the first stands two tokens after the Import before it
NoEarlierFault(toks, j) ==
    \A i \in ImportIndices(toks) :
        i < j =>
            /\ IsStr(toks[i + 2])
            /\ \A h \in ImportIndices(toks) :
                   (h < i /\ \A g \in ImportIndices(toks) : ~(h < g /\ g < i))
                       => i = h + 2

\* C6 (amended): the same, when no Import token before the second occurrence
\* is itself at fault
C6_FirstFaultDuplicate ==
    (/\ main_tokens # <<>>
     /\ DuplicateIndices(main_tokens) # {}
     /\ NoEarlierFault(main_tokens, FirstDuplicate(main_tokens))) =>
        DuplicateReported(main_tokens, FirstDuplicate(main_tokens))

\* C6: a duplicate that is the first fault and does not directly follow the
\* first occurrence has been reported
C6_Witness ==
    /\ main_tokens # <<>>
    /\ DuplicateIndices(main_tokens) # {}
    /\ NoEarlierFault(main_tokens, FirstDuplicate(main_tokens))
    /\ FirstDuplicate(main_tokens) > 2
    /\ DuplicateReported(main_tokens, FirstDuplicate(main_tokens))

\* the scan loop of Lexer::parse is running
Scanning == pc \in {"scan", "line_comment", "after_line_comment"}

\* C3: the scan loop of Lexer::parse always ends; in particular it always
\* leaves skip_comment_single_line, whatever follows the // in the file
C3_ScanTerminates == (pc = "line_comment") ~> (Scanning /\ pc # "line_comment")

\* the loop of Lexer::parse, taken step by step, returns what parse computes
ParseAgrees ==
    /\ ParseReturned =>
          /\ parse(src_text, src_filename).k = "ok"
          /\ parse(src_text, src_filename).toks = parse_tokens
    /\ (pc = "error" /\ ~ParseReturned /\ src_text # <<>>
            /\ err[1].pos.file_name = src_filename
            /\ err[1].message \in {"Unclosed comment", "Unclosed string",
                                  "Unknown token", "invalid integer format",
                                  "invalid float number format"}) =>
          /\ parse(src_text, src_filename).k = "err"
          /\ parse(src_text, src_filename).err = err[1]
    /\ pc = "line_comment" /\ cur.i >= Len(src_text) =>
          parse(src_text, src_filename).k = "loop"

\* the scanner state at which the loop body of Lexer::parse, when taken from
\* the current state, looks for the next lexeme
LexemeStart ==
    skip_comment_multiple_line(src_text,
        IF pc = "scan" THEN skip_whitespace(src_text, cur) ELSE cur).s

\* the next step of the scan loop goes through the loop body down to its
\* recognisers: no line comment and no unclosed block comment comes first
AtLexeme ==
    /\ pc \in {"scan", "after_line_comment"}
    /\ pc = "scan" =>
          look_ahead(src_text, skip_whitespace(src_text, cur), 2)
              # Some(<<"/", "/">>)
    /\ skip_comment_multiple_line(src_text,
           IF pc = "scan" THEN skip_whitespace(src_text, cur) ELSE cur).close
    /\ ~eof(src_text, LexemeStart)

\* from the 0-based index i on, a line terminator or the end of the text
\* comes before any double quote
RECURSIVE NoClosingQuote(_, _)
NoClosingQuote(t, i) ==
    IF i >= Len(t) THEN TRUE
    ELSE IF t[i + 1] = "\n" \/ t[i + 1] = "\r" THEN TRUE
    ELSE IF t[i + 1] = "\"" THEN FALSE
    ELSE NoClosingQuote(t, i + 1)

\* C7: when the scanner is at a double quote that is not closed before the
\* end of the line or of the text, the scan fails with "Unclosed string"
C7_UnclosedString ==
    [][(/\ AtLexeme
        /\ CharAt(src_text, LexemeStart.i) = "\""
        /\ NoClosingQuote(src_text, LexemeStart.i + 1))
          => (pc' = "error" /\ err'[1].message = "Unclosed string")]_vars

\* the 0-based index after the string literal whose opening quote is at
\* index i - 1: after its closing quote, or at the line terminator or the
\* end of the text that comes first
RECURSIVE StringEnd(_, _)
StringEnd(t, i) ==
    IF i >= Len(t) THEN Len(t)
    ELSE IF t[i + 1] = "\n" \/ t[i + 1] = "\r" THEN i
    ELSE IF t[i + 1] = "\"" THEN i + 1
    ELSE StringEnd(t, i + 1)

\* the 0-based index of the first */ at or after index i, -1 if none
RECURSIVE BlockClose(_, _)
BlockClose(t, i) ==
    IF i + 2 > Len(t) THEN -1
    ELSE IF t[i + 1] = "*" /\ t[i + 2] = "/" THEN i
    ELSE BlockClose(t, i + 1)

StartsWith(t, i, a, b) == i + 2 <= Len(t) /\ t[i + 1] = a /\ t[i + 2] = b

\* the lexical grammar of the language, read from index i outside any string
\* and comment: some /* that is neither in a string nor in a comment has no
\* */ after it
RECURSIVE HasUnclosedComment(_, _)
HasUnclosedComment(t, i) ==
    IF i >= Len(t) THEN FALSE
    ELSE IF t[i + 1] = "\"" THEN HasUnclosedComment(t, StringEnd(t, i + 1))
    ELSE IF StartsWith(t, i, "/", "/")
         THEN HasUnclosedComment(t, NextNewline(t, i))
    ELSE IF StartsWith(t, i, "/", "*")
         THEN IF BlockClose(t, i + 2) = -1 THEN TRUE
              ELSE HasUnclosedComment(t, BlockClose(t, i + 2) + 2)
    ELSE HasUnclosedComment(t, i + 1)

\* C8: a file with a /* outside strings and comments that is never closed
\* does not yield a token sequence
C8_UnclosedComment ==
    HasUnclosedComment(src_text, 0) => ~ParseReturned

\* the text with every line comment (without its newline) and every closed
\* block comment replaced by one space, from index i on
RECURSIVE StripComments(_, _)
StripComments(t, i) ==
    IF i >= Len(t) THEN <<>>
    ELSE IF t[i + 1] = "\""
         THEN SubSeq(t, i + 1, StringEnd(t, i + 1))
                  \o StripComments(t, StringEnd(t, i + 1))
    ELSE IF StartsWith(t, i, "/", "/")
         THEN <<" ">> \o StripComments(t, NextNewline(t, i))
    ELSE IF StartsWith(t, i, "/", "*") /\ BlockClose(t, i + 2) # -1
         THEN <<" ">> \o StripComments(t, BlockClose(t, i + 2) + 2)
    ELSE <<t[i + 1]>> \o StripComments(t, i + 1)

TokenValues(toks) == [k \in 1..Len(toks) |-> toks[k].token]

\* C9: the token values Lexer::parse returns for a text are those it returns
\* for the text with its comments replaced by spaces
C9_CommentsYieldNoTokens ==
    ParseReturned =>
        LET p == parse(StripComments(src_text, 0), src_filename)
        IN /\ p.k = "ok"
           /\ TokenValues(p.toks) = TokenValues(parse_tokens)

\* t[k .. k+n-1] is a run of digits with one dot inside, delimited by
\* whitespace or the ends of the text
FloatLexeme(t, k, n) ==
    /\ n >= 3 /\ k + n - 1 <= Len(t)
    /\ \A m \in k..(k + n - 1) : t[m] \in Digits \cup {"."}
    /\ Cardinality({m \in k..(k + n - 1) : t[m] = "."}) = 1
    /\ t[k] \in Digits /\ t[k + n - 1] \in Digits
    /\ k = 1 \/ IsWhite(t[k - 1])
    /\ k + n - 1 = Len(t) \/ IsWhite(t[k + n])

\* C10: a float lexeme (with no string or comment before it in the file)
\* yields one Float token that carries the lexeme
C10_FloatToken ==
    ParseReturned =>
        \A k \in 1..Len(src_text) : \A n \in 3..Len(src_text) :
            (/\ FloatLexeme(src_text, k, n)
             /\ \A m \in 1..(k - 1) : src_text[m] \notin {"\"", "/"}) =>
                \E j \in 1..Len(parse_tokens) :
                    parse_tokens[j].token
                        = TokText("Float", SubSeq(src_text, k, k + n - 1))

\* once skip_comment_single_line has read past the end of the text it stays
\* in its while loop: every further get_next_char returns '\0'
LineCommentStaysPastEnd ==
    [][(pc = "line_comment" /\ cur.i >= Len(src_text))
          => pc' = "line_comment"]_vars

\* t[k .. k+n-1] is a digit-led run of digits and dots with two dots or more,
\* delimited by whitespace or the ends of the text
MultiDotLexeme(t, k, n) ==
    /\ n >= 4 /\ k + n - 1 <= Len(t)
    /\ \A m \in k..(k + n - 1) : t[m] \in Digits \cup {"."}
    /\ Cardinality({m \in k..(k + n - 1) : t[m] = "."}) >= 2
    /\ t[k] \in Digits
    /\ k = 1 \/ IsWhite(t[k - 1])
    /\ k + n - 1 = Len(t) \/ IsWhite(t[k + n])

\* C11: a file with a digit-led lexeme of digits and dots that has two dots or
\* more (with no string or comment before it in the file) yields no token
\* sequence
C11_MultiDotNumber ==
    ParseReturned =>
        \A k \in 1..Len(src_text) : \A n \in 4..Len(src_text) :
            ~(/\ MultiDotLexeme(src_text, k, n)
              /\ \A m \in 1..(k - 1) : src_text[m] \notin {"\"", "/"})

\* the single-character symbols of the token set
SymbolChars ==
    {"[", "]", "(", ")", "{", "}", ",", "+", "-", "*", "/", ":", ".", "="}

\* the 0-based index after the maximal run of digits that starts at index i
RECURSIVE DigitRunEnd(_, _)
DigitRunEnd(t, i) ==
    IF i < Len(t) /\ t[i + 1] \in Digits THEN DigitRunEnd(t, i + 1) ELSE i

\* whitespace, a symbol character or the end of the text is at index i
Delimited(t, i) ==
    i >= Len(t) \/ IsWhite(t[i + 1]) \/ t[i + 1] \in SymbolChars

RECURSIVE StripZeros(_)
StripZeros(word) ==
    IF word # <<>> /\ Head(word) = "0" THEN StripZeros(Tail(word)) ELSE word

\* the digits of 2^31 - 1
I32MaxDigits == <<"2", "1", "4", "7", "4", "8", "3", "6", "4", "7">>

\* a <= b for two digit sequences of the same length
RECURSIVE DigitsLeq(_, _)
DigitsLeq(a, b) ==
    IF a = <<>> THEN TRUE
    ELSE IF DigitVal(Head(a)) < DigitVal(Head(b)) THEN TRUE
    ELSE IF DigitVal(Head(a)) > DigitVal(Head(b)) THEN FALSE
    ELSE DigitsLeq(Tail(a), Tail(b))

\* the decimal value of a run of digits is at most 2^31 - 1
FitsI32(word) ==
    \/ Len(StripZeros(word)) < Len(I32MaxDigits)
    \/ /\ Len(StripZeros(word)) = Len(I32MaxDigits)
       /\ DigitsLeq(StripZeros(word), I32MaxDigits)

\* C12: when the scanner is at a maximal run of digits delimited by
\* whitespace, a symbol character or the end of the text, the scan pushes
\* exactly one token Integer(v), v the decimal value of the run, if
\* v <= 2^31 - 1, and fails with "invalid integer format [run]" otherwise
C12_IntegerToken ==
    [][(/\ AtLexeme
        /\ CharAt(src_text, LexemeStart.i) \in Digits
        /\ Delimited(src_text, DigitRunEnd(src_text, LexemeStart.i)))
          => LET end == DigitRunEnd(src_text, LexemeStart.i)
                 run == SubSeq(src_text, LexemeStart.i + 1, end)
                 pos == Position(src_filename, LexemeStart)
             IN IF FitsI32(run)
                THEN /\ pc' = "scan"
                     /\ parse_tokens' =
                            Append(parse_tokens,
                                   LexToken(TokNum("Integer",
                                                   DecimalValue(run, 0)), pos))
                     /\ cur'.i >= end
                ELSE /\ pc' = "error"
                     /\ err' = Some(LexError("invalid integer format", run, pos))
                     /\ parse_tokens' = parse_tokens]_vars

\* C12: the scan has pushed Integer(2^31 - 1) and then failed on a run of
\* digits whose value does not fit
C12_Witness ==
    /\ pc = "error"
    /\ err[1].message = "invalid integer format"
    /\ \A k \in 1..Len(err[1].arg) : err[1].arg[k] \in Digits
    /\ \E j \in 1..Len(parse_tokens) :
           parse_tokens[j].token = TokNum("Integer", I32Max)

\* C13: the lexeme of the numeric recogniser is made of digits and dots: the
\* lexeme an InvalidNumberFormat error reports has no other character
C13_NumericLexeme ==
    (/\ pc = "error"
     /\ err[1].message \in {"invalid integer format",
                            "invalid float number format"}) =>
        \A k \in 1..Len(err[1].arg) : err[1].arg[k] \in Digits \cup {"."}

\* C14: when the main file cannot be read, tokenize returns a LexError (it
\* neither panics nor returns tokens)
C14_MainFileError ==
    (pc \in Final /\ src_filename = <<>>) =>
        /\ pc = "error"
        /\ err # None
        /\ err[1].message = "File not found"

\* the 1-based line of the character at the 0-based index k of a text
LineAt(t, k) == 1 + Cardinality({m \in 1..k : t[m] = "\n"})

\* the 1-based column of the character at the 0-based index k of a text
ColAt(t, k) ==
    LET lfs == {m \in 1..k : t[m] = "\n"}
    IN IF lfs = {} THEN k + 1
       ELSE k + 1 - (CHOOSE m \in lfs : \A n \in lfs : n <= m)

\* a position of the text: of one of its characters or of its end
InsideText(t, pos) ==
    \E k \in 0..Len(t) : pos.line = LineAt(t, k) /\ pos.col = ColAt(t, k)

\* the last file name given to fs::read_to_string
LastRead == reads[Len(reads)]

\* C15: when an imported file cannot be read, the error carries the position
\* of the Import token of the directive that names it; when the scan of an
\* imported file fails, the error carries the path of the imported file and
\* a line and column inside that file
C15_ImportErrorPosition ==
    /\ (pc = "error" /\ err[1].message = "File not found") =>
          /\ err[1].pos.file_name = main_filename
          /\ \E i \in ImportIndices(main_tokens) :
                /\ IsStr(main_tokens[i + 2])
                /\ LastRead = working_path(main_filename)
                                  \o main_tokens[i + 2].token.text
                /\ err[1].pos = main_tokens[i + 1].pos
    /\ (/\ pc = "error"
        /\ err[1].message # "File not found"
        /\ Len(reads) >= 2
        /\ src_filename = LastRead) =>
          /\ err[1].pos.file_name = LastRead
          /\ LastRead # main_filename
          /\ InsideText(src_text, err[1].pos)

\* C15: the file of an import cannot be read after the file of a later
\* import, which does not yield two tokens, has been spliced in
C15_Witness ==
    /\ pc = "error"
    /\ err[1].message = "File not found"
    /\ err[1].pos.file_name = main_filename
    /\ \E k \in 1..Len(spliced) : Len(spliced[k].toks) # 3
    /\ \E i \in ImportIndices(main_tokens) :
           i > 0 /\ err[1].pos = main_tokens[i + 1].pos

\* the directory part of a path: up to and with its last "/", empty for a
\* bare file name
ContainingDir(path) == SubSeq(path, 1, LastSep(path))

\* C16: every imported file that is read is the path of an import directive
\* resolved in the directory of the main file (p or ./p for a bare main file
\* name)
C16_ImportPath ==
    \A n \in 2..Len(reads) :
        \E i \in ImportIndices(main_tokens) :
            /\ IsStr(main_tokens[i + 2])
            /\ \/ reads[n] = ContainingDir(main_filename)
                                 \o main_tokens[i + 2].token.text
               \/ /\ LastSep(main_filename) = 0
                  /\ reads[n] = <<".", "/">> \o main_tokens[i + 2].token.text

\* the 0-based index of the character of a text that a position names
StartIndex(t, pos) ==
    CHOOSE k \in 0..Len(t) : pos.line = LineAt(t, k) /\ pos.col = ColAt(t, k)

\* t[k+1 .. k+Len(w)] is w
TextAt(t, k, w) == k + Len(w) <= Len(t) /\ SubSeq(t, k + 1, k + Len(w)) = w

\* a word or a number can start at index k: at the start of the text, or
\* after whitespace, a symbol character or a double quote
WordStart(t, k) ==
    k = 0 \/ IsWhite(t[k]) \/ t[k] \in SymbolChars \/ t[k] = "\""

\* the lexeme of the token tk starts at the 0-based index k of the text
LexemeOf(t, k, tk) ==
    \/ /\ tk.kind = "Str"
       /\ TextAt(t, k, <<"\"">> \o tk.text \o <<"\"">>)
    \/ /\ tk.kind = "Ident"
       /\ tk.text # <<>>
       /\ TextAt(t, k, tk.text)
       /\ WordStart(t, k)
    \/ /\ tk.kind = "Integer"
       /\ DigitRunEnd(t, k) > k
       /\ FitsI32(SubSeq(t, k + 1, DigitRunEnd(t, k)))
       /\ tk = TokNum("Integer",
                      DecimalValue(SubSeq(t, k + 1, DigitRunEnd(t, k)), 0))
       /\ WordStart(t, k)
    \/ \E e \in TokenTable :
          /\ tk = Tok(e[2])
          /\ TextAt(t, k, e[1])
          /\ Len(e[1]) > 1 => WordStart(t, k)

\* C17: every token but Eof that Lexer::parse returns has line >= 1 and
\* col >= 1, its position is that of the first character of its lexeme
\* (line = 1 + the line feeds before it, col = 1 + the characters after the
\* last of them), and the lexemes follow one another in the text
C17_TokenPositions ==
    ParseReturned =>
        \A j \in 1..Len(parse_tokens) :
            ~IsEof(parse_tokens[j]) =>
                /\ parse_tokens[j].pos.line >= 1
                /\ parse_tokens[j].pos.col >= 1
                /\ parse_tokens[j].pos.file_name = src_filename
                /\ InsideText(src_text, parse_tokens[j].pos)
                /\ LexemeOf(src_text,
                            StartIndex(src_text, parse_tokens[j].pos),
                            parse_tokens[j].token)
                /\ \A h \in 1..(j - 1) :
                       ~IsEof(parse_tokens[h]) =>
                           StartIndex(src_text, parse_tokens[h].pos)
                               < StartIndex(src_text, parse_tokens[j].pos)

\* C17: a file is tokenized that has a string, a number, a symbol and words
\* after whitespace, after a block comment and after a line comment, on
\* three lines
C17_Witness ==
    /\ ParseReturned
    /\ \E j \in 1..Len(parse_tokens) : IsStr(parse_tokens[j])
    /\ \E j \in 1..Len(parse_tokens) : parse_tokens[j].token.kind = "Integer"
    /\ \E j \in 1..Len(parse_tokens) : parse_tokens[j].token.kind = "Plus"
    /\ \E j \in 1..Len(parse_tokens) :
           /\ parse_tokens[j].token.kind = "Ident"
           /\ parse_tokens[j].pos.line = 3
           /\ parse_tokens[j].pos.col = 2
    /\ \E k \in 0..Len(src_text) : StartsWith(src_text, k, "*", "/")
    /\ \E k \in 0..Len(src_text) : StartsWith(src_text, k, "/", "/")
    /\ \A j \in 1..Len(parse_tokens) : parse_tokens[j].token.kind # "Slash"

\* the token after the Import token at index i is a Str token whose lexeme
\* in the main file starts with a double quote
QuotedPath(toks, i) ==
    /\ IsStr(toks[i + 2])
    /\ InsideText(src_text, toks[i + 2].pos)
    /\ CharAt(src_text, StartIndex(src_text, toks[i + 2].pos)) = "\""

\* the indices of the Import tokens that no quoted string follows
UnquotedIndices(toks) == {i \in ImportIndices(toks) : ~QuotedPath(toks, i)}

FirstUnquoted(toks) ==
    CHOOSE i \in UnquotedIndices(toks) : \A j \in UnquotedIndices(toks) : i <= j

\* C18: an Import token of the main file that is not followed by a string
\* literal written in quotes makes import resolution fail with "import must
\* be a string" at the following token, before any imported file is read
\* (stated for the first such Import, with no import fault before it, while
\* src_text is the main file's text)
C18_ImportMustBeString ==
    (/\ main_tokens # <<>>
     /\ src_filename = main_filename
     /\ UnquotedIndices(main_tokens) # {}
     /\ NoEarlierFault(main_tokens, FirstUnquoted(main_tokens))
     /\ \A j \in DuplicateIndices(main_tokens) :
            j > FirstUnquoted(main_tokens)) =>
        /\ pc = "error"
        /\ err[1].message = "import must be a string"
        /\ err[1].pos = main_tokens[FirstUnquoted(main_tokens) + 2].pos
        /\ reads = <<main_filename>>

\* a word of the form [A-Za-z][A-Za-z0-9_]*
MatchesIdent(w) ==
    /\ Len(w) >= 1
    /\ w[1] \in Lower \cup Upper
    /\ \A k \in 2..Len(w) : w[k] \in Lower \cup Upper \cup Digits \cup {"_"}

\* C19: the classifier returns no data-carrying variant, so every Ident
\* token Lexer::parse pushes carries a text of the form [A-Za-z][A-Za-z0-9_]*
C19_IdentTokens ==
    \A j \in 1..Len(parse_tokens) :
        parse_tokens[j].token.kind = "Ident" =>
            MatchesIdent(parse_tokens[j].token.text)

\* C20: while a file is scanned, at every index of its text, when try_string
\* returns Ok(None), try_symbol returns None or try_number returns None, the
\* scanner's index, line and column are those before the call
C20_NoMatchRestores ==
    Scanning =>
        \A i \in 0..Len(src_text) :
            LET s == [cur EXCEPT !.i = i]
            IN /\ (~try_string(src_text, s).err
                      /\ try_string(src_text, s).res = None)
                     => try_string(src_text, s).s = s
               /\ try_symbol(src_text, s).res = None
                     => try_symbol(src_text, s).s = s
               /\ try_number(src_text, s).res = None
                     => try_number(src_text, s).s = s

\* C20: try_string has read a quote and the characters up to the end of the
\* text and returned Ok(None); the word scan that follows has started again
\* at the quote
C20_Witness ==
    /\ pc = "error"
    /\ err[1].message = "Unknown token"
    /\ Len(err[1].arg) >= 2
    /\ err[1].arg[1] = "\""
    /\ err[1].pos.col > 1

\* the imports tokenize still has to splice: the one whose file is being
\* parsed, then those still in the sorted list
Pending == imp \o imports

\* the import r can be spliced: i + 1 is an index of tokens, element i is the
\* Import token of r and element i + 1 its Str(path) token, both as parsed
\* from the main file, and no token before them has changed
SplicePoint(r) ==
    /\ r.i + 2 <= Len(tokens)
    /\ IsImport(tokens[r.i + 1])
    /\ tokens[r.i + 2].token = TokText("Str", r.path)
    /\ SubSeq(tokens, 1, r.i + 2) = SubSeq(main_tokens, 1, r.i + 2)

\* the main file's tokens after the Str token of its last import
AfterImports(toks) ==
    LET last == CHOOSE i \in ImportIndices(toks) :
                    \A j \in ImportIndices(toks) : j <= i
    IN SubSeq(toks, last + 3, Len(toks))

\* C21: the imports are spliced one at a time from the largest index down;
\* when an import is processed its Import and Str tokens still stand at its
\* index; a splice replaces these two tokens by the imported tokens without
\* their Eof and changes no other token, whatever the imported files yield
C21_SpliceKeepsIndices ==
    /\ [][pc = "import_parsed" =>
            /\ SplicePoint(imp[1])
            /\ pc' = "import_loop"
            /\ Len(spliced') = Len(spliced) + 1
            /\ SubSeq(tokens', 1, imp[1].i) = SubSeq(tokens, 1, imp[1].i)
            /\ SubSeq(tokens', imp[1].i + 1,
                      imp[1].i + Len(parse_tokens) - 1)
                   = SubSeq(parse_tokens, 1, Len(parse_tokens) - 1)
            /\ SubSeq(tokens', imp[1].i + Len(parse_tokens), Len(tokens'))
                   = SubSeq(tokens, imp[1].i + 3, Len(tokens))]_vars
    /\ [](/\ Len(imp) <= 1
          /\ \A n, m \in 1..Len(Pending) :
                 n < m => Pending[n].i > Pending[m].i
          /\ \A n \in 1..Len(Pending) : SplicePoint(Pending[n])
          /\ (main_tokens # <<>> /\ ImportIndices(main_tokens) # {}
                  /\ pc \in {"import_loop", "import_parsed", "done"}) =>
                 /\ Len(tokens) >= Len(AfterImports(main_tokens))
                 /\ SubSeq(tokens,
                           Len(tokens) - Len(AfterImports(main_tokens)) + 1,
                           Len(tokens)) = AfterImports(main_tokens))

\* C21: the file of the import at the lower index, of three tokens or more
\* before its Eof, is about to be spliced in after the file of the import at
\* the higher index, which yielded only Eof; a main-file token stands before
\* the imports and the main file's Eof after them
C21_Witness ==
    /\ pc = "import_parsed"
    /\ Len(spliced) = 1
    /\ Len(spliced[1].toks) = 1
    /\ spliced[1].i = imp[1].i + 2
    /\ imp[1].i > 0
    /\ Len(parse_tokens) >= 4
    /\ Len(AfterImports(main_tokens)) >= 1

====
